---- MODULE Spec2Model ----
(***************************************************************************)
(* Model of the hospital-discharge Soroban contract                        *)
(* (contracts/hospital-discharge/src: lib.rs, storage.rs, types.rs,        *)
(* events.rs, errors.rs).                                                  *)
(*                                                                         *)
(* The contract is a set of entry points over the host's persistent        *)
(* key/value storage.  Every entry point is translated into an operator    *)
(* that takes the invocation's environment (storage as the running frame   *)
(* sees it, events published by the frame, ledger timestamp) and returns   *)
(* the environment at the point of return together with the returned       *)
(* Result.  One action per entry point hands that outcome to the host,     *)
(* which keeps the frame's writes when the Result is Ok and discards them  *)
(* when it is Err or when the frame trapped.                               *)
(***************************************************************************)
EXTENDS Integers, Sequences, FiniteSets, TLC

(***************************************************************************)
(* Bounds of the model.                                                    *)
(***************************************************************************)
\* number of plans that may be created (plan ids 0 .. MaxPlans-1)
MaxPlans == 2
\* number of contract invocations in a behaviour
MaxOps == 3
\* the ledger timestamp ranges over 0 .. MaxTime
MaxTime == 1
\* longest batch passed to schedule_followup_appointments
MaxBatch == 2

(***************************************************************************)
(* Input domains.                                                          *)
(***************************************************************************)
\* BytesN<32> arguments (opaque references, stored verbatim)
Hashes == {7}
\* u32 code arguments (destination, order type, service type, ...)
Codes == {0}
\* admission, expected and actual discharge dates passed by callers
PlanDates == {1, 2}
\* target times passed at ledger time t: just before t, t itself, just after
DatesAround(t) == {d \in {t - 1, t, t + 1} : d >= 0}
\* scheduled times of a batch passed at ledger time t: t itself (not in the
\* future) and the time after it
ApptTimes(t) == {t, t + 1}
\* plan ids passed by callers; MaxPlans is an id that is never allocated
PlanIds == 0..MaxPlans
\* a caller, and whether the host's authorization check accepts the call
Callers == [addr : {1}, authorized : BOOLEAN]
\* the four sub-scores passed to assess_discharge_readiness
ScoreInputs ==
    { <<80, 75, 85, 70>>, <<60, 50, 70, 65>>, <<101, 0, 0, 0>>,
      <<100, 100, 100, 101>> }
\* risk_score values passed to track_readmission_risk
RiskInputs == {30, 101}
\* <<frequency_per_week, duration_weeks>> passed to arrange_home_health
VisitInputs == { <<3, 4>>, <<0, 4>>, <<3, 0>> }
\* types.rs: FollowUpAppointment, with scheduled_time drawn from T
FollowUpAppointment(T) ==
    [provider_id : Hashes, specialty : Codes,
     scheduled_time : T, location_hash : Hashes]
RECURSIVE SeqsUpTo(_, _)
SeqsUpTo(S, n) ==
    IF n = 0 THEN { <<>> }
    ELSE LET shorter == SeqsUpTo(S, n - 1)
         IN  shorter \cup { Append(s, x) : s \in shorter, x \in S }
\* the batches passed to schedule_followup_appointments at ledger time t
Batches(t) == SeqsUpTo(FollowUpAppointment(ApptTimes(t)), MaxBatch)

(***************************************************************************)
(* errors.rs: the contract's error kinds, and the host error raised when   *)
(* require_auth fails (a trap of the frame, not a value of Error).         *)
(***************************************************************************)
Error ==
    {"PlanNotFound", "InvalidDate", "InvalidScore", "InvalidInput",
     "AlreadyCompleted", "Unauthorized"}
HostAuthError == "HostError(Auth)"
Ok(v) == [ok |-> TRUE, err |-> "None", val |-> v]
Err(e) == [ok |-> FALSE, err |-> e, val |-> <<>>]
Unit == <<>>

(***************************************************************************)
(* storage.rs: StorageKey.                                                 *)
(***************************************************************************)
KeyCounter == <<"Counter">>
KeyAppointmentCounter == <<"AppointmentCounter">>
KeyPlan(id) == <<"Plan", id>>
KeyReadiness(id) == <<"Readiness", id>>
KeyOrders(id) == <<"Orders", id>>
KeyHomeHealth(id) == <<"HomeHealth", id>>
KeyDme(id) == <<"Dme", id>>
KeyAppointments(id) == <<"Appointments", id>>
KeyEducation(id) == <<"Education", id>>
KeySnfCoord(id) == <<"SnfCoord", id>>
KeyCompleted(id) == <<"Completed", id>>
KeyRisk(id) == <<"Risk", id>>
DependentKinds ==
    {"Readiness", "Orders", "HomeHealth", "Dme", "Appointments",
     "Education", "SnfCoord", "Completed", "Risk"}

(***************************************************************************)
(* The host's persistent storage as the contract uses it.  An environment  *)
(* env is a record                                                         *)
(*   store      the entries of persistent storage, a function on its keys  *)
(*   unextended the keys written by this frame whose TTL the frame has     *)
(*              not extended since                                         *)
(*   events     the events published by this frame                         *)
(*   timestamp  env.ledger().timestamp()                                   *)
(***************************************************************************)
EmptyStore == [k \in {} |-> 0]
persistent_has(env, key) == key \in DOMAIN env.store
\* get(&key).unwrap_or(default)
persistent_get_or(env, key, default) ==
    IF key \in DOMAIN env.store THEN env.store[key] ELSE default
persistent_set(env, key, val) ==
    [env EXCEPT
       !.store = [k \in (DOMAIN env.store) \cup {key} |->
                    IF k = key THEN val ELSE env.store[k]],
       !.unextended = env.unextended \cup {key}]
extend_ttl(env, key) ==
    [env EXCEPT !.unextended = env.unextended \ {key}]
publish(env, topic, data) ==
    [env EXCEPT !.events = Append(env.events, <<topic, data>>)]

(***************************************************************************)
(* storage.rs: impl Storage.                                               *)
(***************************************************************************)
\* variant of get_and_increment_counter: the counter is written back unchanged
get_and_increment_counter_stuck(env) ==
    LET key == KeyCounter
        counter == persistent_get_or(env, key, 0)
    IN  [env |-> extend_ttl(persistent_set(env, key, counter), key),
         counter |-> counter]

\* variant of get_and_increment_counter: the incremented value is returned
get_and_increment_counter_post(env) ==
    LET key == KeyCounter
        counter == persistent_get_or(env, key, 0)
    IN  [env |-> extend_ttl(persistent_set(env, key, counter + 1), key),
         counter |-> counter + 1]

get_and_increment_counter(env) ==
    LET key == KeyCounter
        counter == persistent_get_or(env, key, 0)
    IN  [env |-> extend_ttl(persistent_set(env, key, counter + 1), key),
         counter |-> counter]

\* variant of get_and_increment_appointment_counter: the counter is written
\* back unchanged
get_and_increment_appointment_counter_stuck(env) ==
    LET key == KeyAppointmentCounter
        counter == persistent_get_or(env, key, 0)
    IN  [env |-> extend_ttl(persistent_set(env, key, counter), key),
         counter |-> counter]

\* variant of get_and_increment_appointment_counter: the plan counter's key
\* is used
get_and_increment_appointment_counter_plan_key(env) ==
    LET key == KeyCounter
        counter == persistent_get_or(env, key, 0)
    IN  [env |-> extend_ttl(persistent_set(env, key, counter + 1), key),
         counter |-> counter]

get_and_increment_appointment_counter(env) ==
    LET key == KeyAppointmentCounter
        counter == persistent_get_or(env, key, 0)
    IN  [env |-> extend_ttl(persistent_set(env, key, counter + 1), key),
         counter |-> counter]

\* variant of save_discharge_plan: the two dates are stored in each other's
\* field
save_discharge_plan_swapped(env, discharge_plan_id, patient_id, admission_date, expected_discharge_date, discharge_destination) ==
    LET plan == [patient_id |-> patient_id,
                 admission_date |-> expected_discharge_date,
                 expected_discharge_date |-> admission_date,
                 discharge_destination |-> discharge_destination,
                 created_at |-> env.timestamp,
                 is_completed |-> FALSE]
        key == KeyPlan(discharge_plan_id)
    IN  extend_ttl(persistent_set(env, key, plan), key)

\* variant of save_discharge_plan: the plan is stored with the flag set
save_discharge_plan_completed(env, discharge_plan_id, patient_id, admission_date, expected_discharge_date, discharge_destination) ==
    LET plan == [patient_id |-> patient_id,
                 admission_date |-> admission_date,
                 expected_discharge_date |-> expected_discharge_date,
                 discharge_destination |-> discharge_destination,
                 created_at |-> env.timestamp,
                 is_completed |-> TRUE]
        key == KeyPlan(discharge_plan_id)
    IN  extend_ttl(persistent_set(env, key, plan), key)

save_discharge_plan(env, discharge_plan_id, patient_id, admission_date, expected_discharge_date, discharge_destination) ==
    LET plan == [patient_id |-> patient_id,
                 admission_date |-> admission_date,
                 expected_discharge_date |-> expected_discharge_date,
                 discharge_destination |-> discharge_destination,
                 created_at |-> env.timestamp,
                 is_completed |-> FALSE]
        key == KeyPlan(discharge_plan_id)
    IN  extend_ttl(persistent_set(env, key, plan), key)

discharge_plan_exists(env, discharge_plan_id) ==
    persistent_has(env, KeyPlan(discharge_plan_id))

\* variant of save_readiness_assessment: a stored assessment is kept
save_readiness_assessment_once(env, discharge_plan_id, readiness) ==
    LET key == KeyReadiness(discharge_plan_id)
    IN  IF persistent_has(env, key) THEN extend_ttl(env, key)
        ELSE extend_ttl(persistent_set(env, key, readiness), key)

save_readiness_assessment(env, discharge_plan_id, readiness) ==
    LET key == KeyReadiness(discharge_plan_id)
    IN  extend_ttl(persistent_set(env, key, readiness), key)

\* variant of add_discharge_order: the new order replaces the stored list
add_discharge_order_overwrite(env, discharge_plan_id, order_type, order_details_hash) ==
    LET order == [order_type |-> order_type,
                  order_details_hash |-> order_details_hash,
                  created_at |-> env.timestamp]
        key == KeyOrders(discharge_plan_id)
    IN  extend_ttl(persistent_set(env, key, <<order>>), key)

add_discharge_order(env, discharge_plan_id, order_type, order_details_hash) ==
    LET order == [order_type |-> order_type,
                  order_details_hash |-> order_details_hash,
                  created_at |-> env.timestamp]
        key == KeyOrders(discharge_plan_id)
        orders == persistent_get_or(env, key, <<>>)
    IN  extend_ttl(persistent_set(env, key, Append(orders, order)), key)

save_home_health_arrangement(env, discharge_plan_id, agency_id, service_type, frequency_per_week, duration_weeks) ==
    LET arrangement == [agency_id |-> agency_id,
                        service_type |-> service_type,
                        frequency_per_week |-> frequency_per_week,
                        duration_weeks |-> duration_weeks,
                        arranged_at |-> env.timestamp]
        key == KeyHomeHealth(discharge_plan_id)
    IN  extend_ttl(persistent_set(env, key, arrangement), key)

save_dme_order(env, discharge_plan_id, equipment_type, supplier_id, delivery_date) ==
    LET dme == [equipment_type |-> equipment_type,
                supplier_id |-> supplier_id,
                delivery_date |-> delivery_date,
                ordered_at |-> env.timestamp]
        key == KeyDme(discharge_plan_id)
        dme_orders == persistent_get_or(env, key, <<>>)
    IN  extend_ttl(persistent_set(env, key, Append(dme_orders, dme)), key)

\* variant of save_followup_appointment: the appointment is put in front
save_followup_appointment_front(env, discharge_plan_id, appointment_id, appointment) ==
    LET key == KeyAppointments(discharge_plan_id)
        appointments == persistent_get_or(env, key, <<>>)
    IN  extend_ttl(persistent_set(env, key, <<appointment>> \o appointments),
                   key)

\* the assigned id (_appointment_id in the source) is not used
save_followup_appointment(env, discharge_plan_id, appointment_id, appointment) ==
    LET key == KeyAppointments(discharge_plan_id)
        appointments == persistent_get_or(env, key, <<>>)
    IN  extend_ttl(persistent_set(env, key, Append(appointments, appointment)),
                   key)

save_education_record(env, discharge_plan_id, education_topic, materials_hash, completed) ==
    LET record == [education_topic |-> education_topic,
                   materials_hash |-> materials_hash,
                   completed |-> completed,
                   provided_at |-> env.timestamp]
        key == KeyEducation(discharge_plan_id)
        records == persistent_get_or(env, key, <<>>)
    IN  extend_ttl(persistent_set(env, key, Append(records, record)), key)

save_snf_coordination(env, discharge_plan_id, snf_id, bed_reserved, transfer_date, medical_summary_hash) ==
    LET coordination == [snf_id |-> snf_id,
                         bed_reserved |-> bed_reserved,
                         transfer_date |-> transfer_date,
                         medical_summary_hash |-> medical_summary_hash,
                         coordinated_at |-> env.timestamp]
        key == KeySnfCoord(discharge_plan_id)
    IN  extend_ttl(persistent_set(env, key, coordination), key)

\* variant of mark_discharge_completed: the plan's flag is left as it was
mark_discharge_completed_flagless(env, discharge_plan_id, actual_discharge_date, discharge_summary_hash) ==
    LET key == KeyCompleted(discharge_plan_id)
        completion_data == <<actual_discharge_date, discharge_summary_hash>>
    IN  extend_ttl(persistent_set(env, key, completion_data), key)

\* variant of mark_discharge_completed: the plan is stamped with the time of
\* completion
mark_discharge_completed_restamped(env, discharge_plan_id, actual_discharge_date, discharge_summary_hash) ==
    LET plan_key == KeyPlan(discharge_plan_id)
        env1 == IF persistent_has(env, plan_key)
                THEN persistent_set(env, plan_key,
                         [env.store[plan_key] EXCEPT
                            !.is_completed = TRUE,
                            !.created_at = env.timestamp])
                ELSE env
        key == KeyCompleted(discharge_plan_id)
        completion_data == <<actual_discharge_date, discharge_summary_hash>>
    IN  extend_ttl(persistent_set(env1, key, completion_data), key)

\* the Plan key is written without a following extend_ttl
mark_discharge_completed(env, discharge_plan_id, actual_discharge_date, discharge_summary_hash) ==
    LET plan_key == KeyPlan(discharge_plan_id)
        env1 == IF persistent_has(env, plan_key)
                THEN persistent_set(env, plan_key,
                         [env.store[plan_key] EXCEPT !.is_completed = TRUE])
                ELSE env
        key == KeyCompleted(discharge_plan_id)
        completion_data == <<actual_discharge_date, discharge_summary_hash>>
    IN  extend_ttl(persistent_set(env1, key, completion_data), key)

\* variant of is_discharge_completed: the flag is not consulted
is_discharge_completed_never(env, discharge_plan_id) == FALSE

is_discharge_completed(env, discharge_plan_id) ==
    LET key == KeyPlan(discharge_plan_id)
    IN  IF persistent_has(env, key) THEN env.store[key].is_completed
        ELSE FALSE

\* variant of save_readmission_risk: one key for all plans
save_readmission_risk_shared(env, discharge_plan_id, risk_factors, risk_score) ==
    LET risk == [risk_factors |-> risk_factors,
                 risk_score |-> risk_score,
                 tracked_at |-> env.timestamp]
        key == KeyRisk(0)
    IN  extend_ttl(persistent_set(env, key, risk), key)

save_readmission_risk(env, discharge_plan_id, risk_factors, risk_score) ==
    LET risk == [risk_factors |-> risk_factors,
                 risk_score |-> risk_score,
                 tracked_at |-> env.timestamp]
        key == KeyRisk(discharge_plan_id)
    IN  extend_ttl(persistent_set(env, key, risk), key)

(***************************************************************************)
(* events.rs: impl Events.                                                 *)
(***************************************************************************)
emit_discharge_initiated(env, discharge_plan_id, patient_id, caller) ==
    publish(env, <<"discharge", "init">>,
            <<discharge_plan_id, patient_id, caller.addr>>)
emit_readiness_assessed(env, discharge_plan_id, total_score, is_ready) ==
    publish(env, <<"discharge", "ready">>,
            <<discharge_plan_id, total_score, is_ready>>)
emit_order_created(env, discharge_plan_id, order_type, order_details_hash) ==
    publish(env, <<"discharge", "order">>,
            <<discharge_plan_id, order_type, order_details_hash>>)
emit_home_health_arranged(env, discharge_plan_id, agency_id, service_type) ==
    publish(env, <<"discharge", "homeheal">>,
            <<discharge_plan_id, agency_id, service_type>>)
emit_dme_ordered(env, discharge_plan_id, equipment_type, supplier_id) ==
    publish(env, <<"discharge", "dme">>,
            <<discharge_plan_id, equipment_type, supplier_id>>)
\* variant of emit_appointment_scheduled: the event carries the counter's
\* value after the increment
emit_appointment_scheduled_next_id(env, discharge_plan_id, appointment_id, provider_id) ==
    publish(env, <<"discharge", "appt">>,
            <<discharge_plan_id, appointment_id + 1, provider_id>>)

emit_appointment_scheduled(env, discharge_plan_id, appointment_id, provider_id) ==
    publish(env, <<"discharge", "appt">>,
            <<discharge_plan_id, appointment_id, provider_id>>)
emit_education_provided(env, discharge_plan_id, education_topic, completed) ==
    publish(env, <<"discharge", "edu">>,
            <<discharge_plan_id, education_topic, completed>>)
emit_snf_coordinated(env, discharge_plan_id, snf_id, bed_reserved) ==
    publish(env, <<"discharge", "snf">>,
            <<discharge_plan_id, snf_id, bed_reserved>>)
emit_discharge_completed(env, discharge_plan_id, actual_discharge_date) ==
    publish(env, <<"discharge", "complete">>,
            <<discharge_plan_id, actual_discharge_date>>)
emit_risk_tracked(env, discharge_plan_id, risk_score) ==
    publish(env, <<"discharge", "risk">>, <<discharge_plan_id, risk_score>>)

(***************************************************************************)
(* lib.rs: impl HospitalDischargeContract.  Each entry point returns the   *)
(* environment at the point of return and the returned Result.             *)
(***************************************************************************)
Return(env, result) == [env |-> env, result |-> result]
\* caller.require_auth(): the frame traps when the host rejects the caller
require_auth(caller) == caller.authorized
Trap(env) == Return(env, Err(HostAuthError))

\* variant of plan_dates_invalid: equal dates are accepted
plan_dates_invalid_strict(admission_date, expected_discharge_date) ==
    expected_discharge_date < admission_date

\* lib.rs 30
plan_dates_invalid(admission_date, expected_discharge_date) ==
    expected_discharge_date <= admission_date

initiate_discharge_planning(env, caller, patient_id, admission_date, expected_discharge_date, discharge_destination) ==
    IF ~require_auth(caller) THEN Trap(env)
    ELSE IF plan_dates_invalid(admission_date, expected_discharge_date)
    THEN Return(env, Err("InvalidDate"))
    ELSE
      LET c == get_and_increment_counter(env)
          discharge_plan_id == c.counter
          env1 == save_discharge_plan(c.env, discharge_plan_id, patient_id,
                      admission_date, expected_discharge_date,
                      discharge_destination)
          env2 == emit_discharge_initiated(env1, discharge_plan_id,
                      patient_id, caller)
      IN  Return(env2, Ok(discharge_plan_id))

\* variant of scores_invalid: the education score is not range-checked
scores_invalid_three(medical_stability_score, functional_status_score, support_system_score, education_completion_score) ==
    \/ medical_stability_score > 100
    \/ functional_status_score > 100
    \/ support_system_score > 100

\* lib.rs 67-70
scores_invalid(medical_stability_score, functional_status_score, support_system_score, education_completion_score) ==
    \/ medical_stability_score > 100
    \/ functional_status_score > 100
    \/ support_system_score > 100
    \/ education_completion_score > 100
\* lib.rs 75-79: u32 arithmetic; evaluated only after the range check, so
\* the sum is at most 400 and cannot wrap
total_of(medical_stability_score, functional_status_score, support_system_score, education_completion_score) ==
    (medical_stability_score + functional_status_score
     + support_system_score + education_completion_score) \div 4
\* variant of ready_at: a total of exactly 75 is not ready
ready_at_strict(total_score) == total_score > 75

\* lib.rs 81
ready_at(total_score) == total_score >= 75

\* variant of assess_discharge_readiness: the scores are validated before the
\* plan is looked up
assess_discharge_readiness_scores_first(env, caller, discharge_plan_id, medical_stability_score, functional_status_score, support_system_score, education_completion_score) ==
    IF ~require_auth(caller) THEN Trap(env)
    ELSE IF scores_invalid(medical_stability_score, functional_status_score,
                           support_system_score, education_completion_score)
    THEN Return(env, Err("InvalidScore"))
    ELSE IF ~discharge_plan_exists(env, discharge_plan_id)
    THEN Return(env, Err("PlanNotFound"))
    ELSE
      LET total_score == total_of(medical_stability_score,
                             functional_status_score, support_system_score,
                             education_completion_score)
          is_ready == ready_at(total_score)
          readiness ==
              [discharge_plan_id |-> discharge_plan_id,
               medical_stability_score |-> medical_stability_score,
               functional_status_score |-> functional_status_score,
               support_system_score |-> support_system_score,
               education_completion_score |-> education_completion_score,
               total_score |-> total_score,
               is_ready |-> is_ready,
               assessed_at |-> env.timestamp]
          env1 == save_readiness_assessment(env, discharge_plan_id, readiness)
          env2 == emit_readiness_assessed(env1, discharge_plan_id,
                      total_score, is_ready)
      IN  Return(env2, Ok(readiness))

assess_discharge_readiness(env, caller, discharge_plan_id, medical_stability_score, functional_status_score, support_system_score, education_completion_score) ==
    IF ~require_auth(caller) THEN Trap(env)
    ELSE IF ~discharge_plan_exists(env, discharge_plan_id)
    THEN Return(env, Err("PlanNotFound"))
    ELSE IF scores_invalid(medical_stability_score, functional_status_score,
                           support_system_score, education_completion_score)
    THEN Return(env, Err("InvalidScore"))
    ELSE
      LET total_score == total_of(medical_stability_score,
                             functional_status_score, support_system_score,
                             education_completion_score)
          is_ready == ready_at(total_score)
          readiness ==
              [discharge_plan_id |-> discharge_plan_id,
               medical_stability_score |-> medical_stability_score,
               functional_status_score |-> functional_status_score,
               support_system_score |-> support_system_score,
               education_completion_score |-> education_completion_score,
               total_score |-> total_score,
               is_ready |-> is_ready,
               assessed_at |-> env.timestamp]
          env1 == save_readiness_assessment(env, discharge_plan_id, readiness)
          env2 == emit_readiness_assessed(env1, discharge_plan_id,
                      total_score, is_ready)
      IN  Return(env2, Ok(readiness))

\* variant of create_discharge_orders: the plan is not looked up
create_discharge_orders_unchecked(env, caller, discharge_plan_id, order_type, order_details_hash) ==
    IF ~require_auth(caller) THEN Trap(env)
    ELSE
      LET env1 == add_discharge_order(env, discharge_plan_id, order_type,
                      order_details_hash)
          env2 == emit_order_created(env1, discharge_plan_id, order_type,
                      order_details_hash)
      IN  Return(env2, Ok(Unit))

create_discharge_orders(env, caller, discharge_plan_id, order_type, order_details_hash) ==
    IF ~require_auth(caller) THEN Trap(env)
    ELSE IF ~discharge_plan_exists(env, discharge_plan_id)
    THEN Return(env, Err("PlanNotFound"))
    ELSE
      LET env1 == add_discharge_order(env, discharge_plan_id, order_type,
                      order_details_hash)
          env2 == emit_order_created(env1, discharge_plan_id, order_type,
                      order_details_hash)
      IN  Return(env2, Ok(Unit))

\* variant of visits_invalid: rejected only when both are zero
visits_invalid_both(frequency_per_week, duration_weeks) ==
    frequency_per_week = 0 /\ duration_weeks = 0

\* lib.rs 136
visits_invalid(frequency_per_week, duration_weeks) ==
    frequency_per_week = 0 \/ duration_weeks = 0

arrange_home_health(env, caller, discharge_plan_id, agency_id, service_type, frequency_per_week, duration_weeks) ==
    IF ~require_auth(caller) THEN Trap(env)
    ELSE IF ~discharge_plan_exists(env, discharge_plan_id)
    THEN Return(env, Err("PlanNotFound"))
    ELSE IF visits_invalid(frequency_per_week, duration_weeks)
    THEN Return(env, Err("InvalidInput"))
    ELSE
      LET env1 == save_home_health_arrangement(env, discharge_plan_id,
                      agency_id, service_type, frequency_per_week,
                      duration_weeks)
          env2 == emit_home_health_arranged(env1, discharge_plan_id,
                      agency_id, service_type)
      IN  Return(env2, Ok(Unit))

\* lib.rs 169
delivery_date_invalid(delivery_date, timestamp) == delivery_date <= timestamp

order_dme_for_discharge(env, caller, discharge_plan_id, equipment_type, supplier_id, delivery_date) ==
    IF ~require_auth(caller) THEN Trap(env)
    ELSE IF ~discharge_plan_exists(env, discharge_plan_id)
    THEN Return(env, Err("PlanNotFound"))
    ELSE IF delivery_date_invalid(delivery_date, env.timestamp)
    THEN Return(env, Err("InvalidDate"))
    ELSE
      LET env1 == save_dme_order(env, discharge_plan_id, equipment_type,
                      supplier_id, delivery_date)
          env2 == emit_dme_ordered(env1, discharge_plan_id, equipment_type,
                      supplier_id)
      IN  Return(env2, Ok(Unit))

\* variant of scheduled_time_invalid: an appointment at the current time passes
scheduled_time_invalid_strict(appointment, current_time) ==
    appointment.scheduled_time < current_time

\* lib.rs 207
scheduled_time_invalid(appointment, current_time) ==
    appointment.scheduled_time <= current_time

\* lib.rs 206-221: the loop over the batch, from its i-th appointment on
RECURSIVE schedule_loop(_, _, _, _, _, _)
schedule_loop(env, discharge_plan_id, appointments, current_time, i, appointment_ids) ==
    IF i > Len(appointments) THEN Return(env, Ok(appointment_ids))
    ELSE
      LET appointment == appointments[i]
      IN  IF scheduled_time_invalid(appointment, current_time)
          THEN Return(env, Err("InvalidDate"))
          ELSE
            LET c == get_and_increment_appointment_counter(env)
                appointment_id == c.counter
                env1 == save_followup_appointment(c.env, discharge_plan_id,
                            appointment_id, appointment)
                env2 == emit_appointment_scheduled(env1, discharge_plan_id,
                            appointment_id, appointment.provider_id)
            IN  schedule_loop(env2, discharge_plan_id, appointments,
                              current_time, i + 1,
                              Append(appointment_ids, appointment_id))

\* variant of schedule_followup_appointments: an empty batch is not rejected
schedule_followup_appointments_empty_ok(env, caller, discharge_plan_id, appointments) ==
    IF ~require_auth(caller) THEN Trap(env)
    ELSE IF ~discharge_plan_exists(env, discharge_plan_id)
    THEN Return(env, Err("PlanNotFound"))
    ELSE schedule_loop(env, discharge_plan_id, appointments, env.timestamp,
                       1, <<>>)

schedule_followup_appointments(env, caller, discharge_plan_id, appointments) ==
    IF ~require_auth(caller) THEN Trap(env)
    ELSE IF ~discharge_plan_exists(env, discharge_plan_id)
    THEN Return(env, Err("PlanNotFound"))
    ELSE IF appointments = <<>>
    THEN Return(env, Err("InvalidInput"))
    ELSE schedule_loop(env, discharge_plan_id, appointments, env.timestamp,
                       1, <<>>)

\* variant of provide_discharge_education: refused until the plan has been
\* assessed
provide_discharge_education_after_assessment(env, caller, discharge_plan_id, education_topic, materials_hash, completed) ==
    IF ~require_auth(caller) THEN Trap(env)
    ELSE IF ~discharge_plan_exists(env, discharge_plan_id)
    THEN Return(env, Err("PlanNotFound"))
    ELSE IF ~persistent_has(env, KeyReadiness(discharge_plan_id))
    THEN Return(env, Err("InvalidInput"))
    ELSE
      LET env1 == save_education_record(env, discharge_plan_id,
                      education_topic, materials_hash, completed)
          env2 == emit_education_provided(env1, discharge_plan_id,
                      education_topic, completed)
      IN  Return(env2, Ok(Unit))

provide_discharge_education(env, caller, discharge_plan_id, education_topic, materials_hash, completed) ==
    IF ~require_auth(caller) THEN Trap(env)
    ELSE IF ~discharge_plan_exists(env, discharge_plan_id)
    THEN Return(env, Err("PlanNotFound"))
    ELSE
      LET env1 == save_education_record(env, discharge_plan_id,
                      education_topic, materials_hash, completed)
          env2 == emit_education_provided(env1, discharge_plan_id,
                      education_topic, completed)
      IN  Return(env2, Ok(Unit))

\* variant of transfer_date_invalid: a transfer at the current time passes
transfer_date_invalid_strict(transfer_date, timestamp) == transfer_date < timestamp

\* lib.rs 270
transfer_date_invalid(transfer_date, timestamp) == transfer_date <= timestamp

coordinate_with_snf(env, caller, discharge_plan_id, snf_id, bed_reserved, transfer_date, medical_summary_hash) ==
    IF ~require_auth(caller) THEN Trap(env)
    ELSE IF ~discharge_plan_exists(env, discharge_plan_id)
    THEN Return(env, Err("PlanNotFound"))
    ELSE IF transfer_date_invalid(transfer_date, env.timestamp)
    THEN Return(env, Err("InvalidDate"))
    ELSE
      LET env1 == save_snf_coordination(env, discharge_plan_id, snf_id,
                      bed_reserved, transfer_date, medical_summary_hash)
          env2 == emit_snf_coordinated(env1, discharge_plan_id, snf_id,
                      bed_reserved)
      IN  Return(env2, Ok(Unit))

\* variant of complete_discharge: refused unless the stored assessment says
\* the patient is ready
complete_discharge_needs_ready(env, caller, discharge_plan_id, actual_discharge_date, discharge_summary_hash) ==
    IF ~require_auth(caller) THEN Trap(env)
    ELSE IF ~discharge_plan_exists(env, discharge_plan_id)
    THEN Return(env, Err("PlanNotFound"))
    ELSE IF is_discharge_completed(env, discharge_plan_id)
    THEN Return(env, Err("AlreadyCompleted"))
    ELSE IF ~( /\ persistent_has(env, KeyReadiness(discharge_plan_id))
               /\ env.store[KeyReadiness(discharge_plan_id)].is_ready )
    THEN Return(env, Err("InvalidInput"))
    ELSE
      LET env1 == mark_discharge_completed(env, discharge_plan_id,
                      actual_discharge_date, discharge_summary_hash)
          env2 == emit_discharge_completed(env1, discharge_plan_id,
                      actual_discharge_date)
      IN  Return(env2, Ok(Unit))

complete_discharge(env, caller, discharge_plan_id, actual_discharge_date, discharge_summary_hash) ==
    IF ~require_auth(caller) THEN Trap(env)
    ELSE IF ~discharge_plan_exists(env, discharge_plan_id)
    THEN Return(env, Err("PlanNotFound"))
    ELSE IF is_discharge_completed(env, discharge_plan_id)
    THEN Return(env, Err("AlreadyCompleted"))
    ELSE
      LET env1 == mark_discharge_completed(env, discharge_plan_id,
                      actual_discharge_date, discharge_summary_hash)
          env2 == emit_discharge_completed(env1, discharge_plan_id,
                      actual_discharge_date)
      IN  Return(env2, Ok(Unit))

\* variant of risk_score_invalid: the limit is off by one
risk_score_invalid_off_by_one(risk_score) == risk_score > 101

\* lib.rs 332
risk_score_invalid(risk_score) == risk_score > 100

\* variant of track_readmission_risk: a completed plan is refused
track_readmission_risk_frozen(env, caller, discharge_plan_id, risk_factors, risk_score) ==
    IF ~require_auth(caller) THEN Trap(env)
    ELSE IF ~discharge_plan_exists(env, discharge_plan_id)
    THEN Return(env, Err("PlanNotFound"))
    ELSE IF is_discharge_completed(env, discharge_plan_id)
    THEN Return(env, Err("AlreadyCompleted"))
    ELSE IF risk_score_invalid(risk_score)
    THEN Return(env, Err("InvalidScore"))
    ELSE
      LET env1 == save_readmission_risk(env, discharge_plan_id, risk_factors,
                      risk_score)
          env2 == emit_risk_tracked(env1, discharge_plan_id, risk_score)
      IN  Return(env2, Ok(Unit))

track_readmission_risk(env, caller, discharge_plan_id, risk_factors, risk_score) ==
    IF ~require_auth(caller) THEN Trap(env)
    ELSE IF ~discharge_plan_exists(env, discharge_plan_id)
    THEN Return(env, Err("PlanNotFound"))
    ELSE IF risk_score_invalid(risk_score)
    THEN Return(env, Err("InvalidScore"))
    ELSE
      LET env1 == save_readmission_risk(env, discharge_plan_id, risk_factors,
                      risk_score)
          env2 == emit_risk_tracked(env1, discharge_plan_id, risk_score)
      IN  Return(env2, Ok(Unit))

(***************************************************************************)
(* State.                                                                  *)
(*   store      persistent storage of the contract between invocations     *)
(*   now        the ledger timestamp                                       *)
(*   call       the last invocation: entry point and arguments             *)
(*   result     the Result it returned                                     *)
(*   snapshot   persistent storage when that invocation started            *)
(*   frame      the environment of that invocation at its point of return  *)
(*   returned_plan_ids         ids returned by successful                  *)
(*                             initiate_discharge_planning calls, in order *)
(*   returned_appointment_ids  ids returned by successful                  *)
(*                             schedule_followup_appointments calls        *)
(*   completions  per plan id, the number of successful complete_discharge *)
(*   nops       number of invocations so far                               *)
(***************************************************************************)
VARIABLES store, now, call, result, snapshot, frame,
          returned_plan_ids, returned_appointment_ids, completions, nops

vars == <<store, now, call, result, snapshot, frame,
          returned_plan_ids, returned_appointment_ids, completions, nops>>

\* the environment a new invocation starts in
NewEnv == [store |-> store, unextended |-> {}, events |-> <<>>,
           timestamp |-> now]

\* #[contractimpl]: the host keeps the frame's storage writes when the entry
\* point returns Ok and rolls them back when it returns Err or traps
\* the events an invocation leaves published: like its writes, the events of
\* an invocation that fails are discarded by the host
Published(r) == IF r.result.ok THEN r.env.events ELSE <<>>

\* variant of Commit: the frame's writes are kept whatever the result
Commit_no_rollback(st, r) == r.env.store

Commit(st, r) == IF r.result.ok THEN r.env.store ELSE st

\* one invocation of entry point op with arguments args and outcome r
Invoke(op, args, r) ==
    /\ nops < MaxOps
    /\ nops' = nops + 1
    /\ call' = [op |-> op, args |-> args]
    /\ result' = r.result
    /\ snapshot' = store
    /\ frame' = r.env
    /\ store' = Commit(store, r)
    /\ returned_plan_ids' =
         IF op = "initiate_discharge_planning" /\ r.result.ok
         THEN Append(returned_plan_ids, r.result.val)
         ELSE returned_plan_ids
    /\ returned_appointment_ids' =
         IF op = "schedule_followup_appointments" /\ r.result.ok
         THEN returned_appointment_ids \o r.result.val
         ELSE returned_appointment_ids
    /\ completions' =
         IF op = "complete_discharge" /\ r.result.ok
         THEN [completions EXCEPT ![args.discharge_plan_id] = @ + 1]
         ELSE completions
    /\ UNCHANGED now

Init ==
    /\ store = EmptyStore
    /\ now = 0
    /\ call = [op |-> "none", args |-> <<>>]
    /\ result = Ok(Unit)
    /\ snapshot = EmptyStore
    /\ frame = [store |-> EmptyStore, unextended |-> {}, events |-> <<>>,
                timestamp |-> 0]
    /\ returned_plan_ids = <<>>
    /\ returned_appointment_ids = <<>>
    /\ completions = [p \in PlanIds |-> 0]
    /\ nops = 0

\* the ledger closes: the timestamp advances
Tick ==
    /\ now < MaxTime
    /\ now' = now + 1
    /\ UNCHANGED <<store, call, result, snapshot, frame, returned_plan_ids,
                   returned_appointment_ids, completions, nops>>

InitiateDischargePlanning ==
    \E caller \in Callers, patient_id \in Hashes,
       admission_date \in PlanDates, expected_discharge_date \in PlanDates,
       discharge_destination \in Codes :
      LET r == initiate_discharge_planning(NewEnv, caller, patient_id,
                   admission_date, expected_discharge_date,
                   discharge_destination)
      IN  /\ r.result.ok => persistent_get_or(NewEnv, KeyCounter, 0) < MaxPlans
          /\ Invoke("initiate_discharge_planning",
                    [caller |-> caller, patient_id |-> patient_id,
                     admission_date |-> admission_date,
                     expected_discharge_date |-> expected_discharge_date,
                     discharge_destination |-> discharge_destination], r)

AssessDischargeReadiness ==
    \E caller \in Callers, discharge_plan_id \in PlanIds, s \in ScoreInputs :
      Invoke("assess_discharge_readiness",
             [caller |-> caller, discharge_plan_id |-> discharge_plan_id,
              scores |-> s],
             assess_discharge_readiness(NewEnv, caller, discharge_plan_id,
                                        s[1], s[2], s[3], s[4]))

CreateDischargeOrders ==
    \E caller \in Callers, discharge_plan_id \in PlanIds,
       order_type \in Codes, order_details_hash \in Hashes :
      Invoke("create_discharge_orders",
             [caller |-> caller, discharge_plan_id |-> discharge_plan_id,
              order_type |-> order_type,
              order_details_hash |-> order_details_hash],
             create_discharge_orders(NewEnv, caller, discharge_plan_id,
                                     order_type, order_details_hash))

ArrangeHomeHealth ==
    \E caller \in Callers, discharge_plan_id \in PlanIds,
       agency_id \in Hashes, service_type \in Codes, v \in VisitInputs :
      Invoke("arrange_home_health",
             [caller |-> caller, discharge_plan_id |-> discharge_plan_id,
              agency_id |-> agency_id, service_type |-> service_type,
              frequency_per_week |-> v[1], duration_weeks |-> v[2]],
             arrange_home_health(NewEnv, caller, discharge_plan_id, agency_id,
                                 service_type, v[1], v[2]))

OrderDmeForDischarge ==
    \E caller \in Callers, discharge_plan_id \in PlanIds,
       equipment_type \in Codes, supplier_id \in Hashes,
       delivery_date \in DatesAround(now) :
      Invoke("order_dme_for_discharge",
             [caller |-> caller, discharge_plan_id |-> discharge_plan_id,
              equipment_type |-> equipment_type, supplier_id |-> supplier_id,
              delivery_date |-> delivery_date],
             order_dme_for_discharge(NewEnv, caller, discharge_plan_id,
                                     equipment_type, supplier_id,
                                     delivery_date))

ScheduleFollowupAppointments ==
    \E caller \in Callers, discharge_plan_id \in PlanIds,
       appointments \in Batches(now) :
      Invoke("schedule_followup_appointments",
             [caller |-> caller, discharge_plan_id |-> discharge_plan_id,
              appointments |-> appointments],
             schedule_followup_appointments(NewEnv, caller, discharge_plan_id,
                                            appointments))

ProvideDischargeEducation ==
    \E caller \in Callers, discharge_plan_id \in PlanIds,
       education_topic \in Codes, materials_hash \in Hashes,
       completed \in {TRUE} :
      Invoke("provide_discharge_education",
             [caller |-> caller, discharge_plan_id |-> discharge_plan_id,
              education_topic |-> education_topic,
              materials_hash |-> materials_hash, completed |-> completed],
             provide_discharge_education(NewEnv, caller, discharge_plan_id,
                                         education_topic, materials_hash,
                                         completed))

CoordinateWithSnf ==
    \E caller \in Callers, discharge_plan_id \in PlanIds, snf_id \in Hashes,
       bed_reserved \in {TRUE}, transfer_date \in DatesAround(now),
       medical_summary_hash \in Hashes :
      Invoke("coordinate_with_snf",
             [caller |-> caller, discharge_plan_id |-> discharge_plan_id,
              snf_id |-> snf_id, bed_reserved |-> bed_reserved,
              transfer_date |-> transfer_date,
              medical_summary_hash |-> medical_summary_hash],
             coordinate_with_snf(NewEnv, caller, discharge_plan_id, snf_id,
                                 bed_reserved, transfer_date,
                                 medical_summary_hash))

CompleteDischarge ==
    \E caller \in Callers, discharge_plan_id \in PlanIds,
       actual_discharge_date \in PlanDates,
       discharge_summary_hash \in Hashes :
      Invoke("complete_discharge",
             [caller |-> caller, discharge_plan_id |-> discharge_plan_id,
              actual_discharge_date |-> actual_discharge_date,
              discharge_summary_hash |-> discharge_summary_hash],
             complete_discharge(NewEnv, caller, discharge_plan_id,
                                actual_discharge_date,
                                discharge_summary_hash))

TrackReadmissionRisk ==
    \E caller \in Callers, discharge_plan_id \in PlanIds,
       risk_factors \in Codes, risk_score \in RiskInputs :
      Invoke("track_readmission_risk",
             [caller |-> caller, discharge_plan_id |-> discharge_plan_id,
              risk_factors |-> risk_factors, risk_score |-> risk_score],
             track_readmission_risk(NewEnv, caller, discharge_plan_id,
                                    risk_factors, risk_score))

Next ==
    \/ Tick
    \/ InitiateDischargePlanning
    \/ AssessDischargeReadiness
    \/ CreateDischargeOrders
    \/ ArrangeHomeHealth
    \/ OrderDmeForDischarge
    \/ ScheduleFollowupAppointments
    \/ ProvideDischargeEducation
    \/ CoordinateWithSnf
    \/ CompleteDischarge
    \/ TrackReadmissionRisk

Spec == Init /\ [][Next]_vars

(***************************************************************************)
(* The same contract, started in the state that two successful             *)
(* initiate_discharge_planning calls at ledger time 0 leave behind (plans  *)
(* 0 and 1 exist, the plan counter is 2), so that MaxOps invocations on    *)
(* two existing plans are explored.                                        *)
(***************************************************************************)
TwoPlansStore ==
    LET env0 == [store |-> EmptyStore, unextended |-> {}, events |-> <<>>,
                 timestamp |-> 0]
        caller == [addr |-> 1, authorized |-> TRUE]
        first == initiate_discharge_planning(env0, caller, 7, 1, 2, 0)
        second == initiate_discharge_planning(first.env, caller, 7, 1, 2, 0)
    IN  second.env.store

InitTwoPlans ==
    /\ store = TwoPlansStore
    /\ now = 0
    /\ call = [op |-> "none", args |-> <<>>]
    /\ result = Ok(Unit)
    /\ snapshot = TwoPlansStore
    /\ frame = [store |-> TwoPlansStore, unextended |-> {}, events |-> <<>>,
                timestamp |-> 0]
    /\ returned_plan_ids = <<0, 1>>
    /\ returned_appointment_ids = <<>>
    /\ completions = [p \in PlanIds |-> 0]
    /\ nops = 0

SpecTwoPlans == InitTwoPlans /\ [][Next]_vars

(***************************************************************************)
(* assess_discharge_readiness over a wide range of sub-scores.  The call   *)
(* is the first invocation after one of a few states the contract can be   *)
(* in: two fresh plans; plan 0 completed; plan 1 already assessed.         *)
(***************************************************************************)
ScoreValues == {0, 1, 50, 74, 75, 76, 100, 101}
WideScoreInputs ==
    ScoreInputs \cup
    {<<a, b, c, d>> : a \in ScoreValues, b \in ScoreValues,
                      c \in ScoreValues, d \in ScoreValues}

ReadinessPreStores ==
    LET env0 == [store |-> TwoPlansStore, unextended |-> {}, events |-> <<>>,
                 timestamp |-> 0]
        caller == [addr |-> 1, authorized |-> TRUE]
    IN  { TwoPlansStore,
          complete_discharge(env0, caller, 0, 2, 7).env.store,
          assess_discharge_readiness(env0, caller, 1, 60, 50, 70, 65).env.store }

InitReadiness ==
    /\ store \in ReadinessPreStores
    /\ now \in 0..MaxTime
    /\ call = [op |-> "none", args |-> <<>>]
    /\ result = Ok(Unit)
    /\ snapshot = store
    /\ frame = [store |-> store, unextended |-> {}, events |-> <<>>,
                timestamp |-> now]
    /\ returned_plan_ids = <<0, 1>>
    /\ returned_appointment_ids = <<>>
    /\ completions = [p \in PlanIds |->
                        IF KeyCompleted(p) \in DOMAIN store THEN 1 ELSE 0]
    /\ nops = 0

AssessDischargeReadinessWide ==
    /\ call.op = "none"
    /\ \E caller \in Callers, discharge_plan_id \in PlanIds,
          s \in WideScoreInputs :
         Invoke("assess_discharge_readiness",
                [caller |-> caller, discharge_plan_id |-> discharge_plan_id,
                 scores |-> s],
                assess_discharge_readiness(NewEnv, caller, discharge_plan_id,
                                           s[1], s[2], s[3], s[4]))

SpecReadiness == InitReadiness /\ [][AssessDischargeReadinessWide]_vars

(***************************************************************************)
(* schedule_followup_appointments over batches of distinguishable          *)
(* appointments.  The call is the first invocation after one of a few      *)
(* states the contract can be in: two fresh plans; plan 0 with one         *)
(* appointment; plan 0 with one appointment and plan 1 with two.           *)
(***************************************************************************)
Providers == {7, 8}
WideBatches(t) ==
    SeqsUpTo([provider_id : Providers, specialty : Codes,
              scheduled_time : {t, t + 1, t + 2}, location_hash : Hashes],
             MaxBatch)

SchedulePreStores ==
    LET env0 == [store |-> TwoPlansStore, unextended |-> {}, events |-> <<>>,
                 timestamp |-> 0]
        caller == [addr |-> 1, authorized |-> TRUE]
        appt(p) == [provider_id |-> p, specialty |-> 0,
                    scheduled_time |-> 1, location_hash |-> 7]
        one == schedule_followup_appointments(env0, caller, 0, <<appt(7)>>)
        three == schedule_followup_appointments(one.env, caller, 1,
                     <<appt(8), appt(7)>>)
    IN  { TwoPlansStore, one.env.store, three.env.store }

InitSchedule ==
    /\ store \in SchedulePreStores
    /\ now \in 0..MaxTime
    /\ call = [op |-> "none", args |-> <<>>]
    /\ result = Ok(Unit)
    /\ snapshot = store
    /\ frame = [store |-> store, unextended |-> {}, events |-> <<>>,
                timestamp |-> now]
    /\ returned_plan_ids = <<0, 1>>
    /\ returned_appointment_ids =
          [i \in 1..(IF KeyAppointmentCounter \in DOMAIN store
                     THEN store[KeyAppointmentCounter] ELSE 0) |-> i - 1]
    /\ completions = [p \in PlanIds |-> 0]
    /\ nops = 0

ScheduleFollowupAppointmentsWide ==
    /\ call.op = "none"
    /\ \E caller \in Callers, discharge_plan_id \in PlanIds,
          appointments \in WideBatches(now) :
         Invoke("schedule_followup_appointments",
                [caller |-> caller, discharge_plan_id |-> discharge_plan_id,
                 appointments |-> appointments],
                schedule_followup_appointments(NewEnv, caller,
                    discharge_plan_id, appointments))

SpecSchedule == InitSchedule /\ [][ScheduleFollowupAppointmentsWide]_vars

(***************************************************************************)
(* complete_discharge over actual discharge dates before, at and after the *)
(* plans' admission date (1) and the ledger time.  The call is the first   *)
(* invocation after one of a few states the contract can be in: two fresh  *)
(* plans; plan 0 assessed as not ready; plan 0 assessed as ready; plan 0   *)
(* completed.                                                              *)
(***************************************************************************)
WideDischargeDates == {0, 1, 2, 3}

CompletePreStores ==
    LET env0 == [store |-> TwoPlansStore, unextended |-> {}, events |-> <<>>,
                 timestamp |-> 0]
        caller == [addr |-> 1, authorized |-> TRUE]
    IN  { TwoPlansStore,
          assess_discharge_readiness(env0, caller, 0, 60, 50, 70, 65).env.store,
          assess_discharge_readiness(env0, caller, 0, 80, 75, 85, 70).env.store,
          complete_discharge(env0, caller, 0, 2, 7).env.store }

InitComplete ==
    /\ store \in CompletePreStores
    /\ now \in 0..MaxTime
    /\ call = [op |-> "none", args |-> <<>>]
    /\ result = Ok(Unit)
    /\ snapshot = store
    /\ frame = [store |-> store, unextended |-> {}, events |-> <<>>,
                timestamp |-> now]
    /\ returned_plan_ids = <<0, 1>>
    /\ returned_appointment_ids = <<>>
    /\ completions = [p \in PlanIds |->
                        IF KeyCompleted(p) \in DOMAIN store THEN 1 ELSE 0]
    /\ nops = 0

CompleteDischargeWide ==
    /\ call.op = "none"
    /\ \E caller \in Callers, discharge_plan_id \in PlanIds,
          actual_discharge_date \in WideDischargeDates,
          discharge_summary_hash \in Hashes :
         Invoke("complete_discharge",
                [caller |-> caller, discharge_plan_id |-> discharge_plan_id,
                 actual_discharge_date |-> actual_discharge_date,
                 discharge_summary_hash |-> discharge_summary_hash],
                complete_discharge(NewEnv, caller, discharge_plan_id,
                                   actual_discharge_date,
                                   discharge_summary_hash))

SpecComplete == InitComplete /\ [][CompleteDischargeWide]_vars

(***************************************************************************)
(* One invocation of any entry point in a state where the plans already    *)
(* have a record of every kind: one annotated plan; two annotated plans;   *)
(* two annotated plans of which plan 1 is completed.                       *)
(***************************************************************************)
\* the store after the eight annotation operations have each succeeded once
\* on plan p, at ledger time 0, starting from store st
Annotated(st, p) ==
    LET caller == [addr |-> 1, authorized |-> TRUE]
        appt == [provider_id |-> 7, specialty |-> 0, scheduled_time |-> 1,
                 location_hash |-> 7]
        at(s) == [store |-> s, unextended |-> {}, events |-> <<>>,
                  timestamp |-> 0]
        s1 == assess_discharge_readiness(at(st), caller, p, 80, 75, 85, 70).env.store
        s2 == create_discharge_orders(at(s1), caller, p, 0, 7).env.store
        s3 == arrange_home_health(at(s2), caller, p, 7, 0, 3, 4).env.store
        s4 == order_dme_for_discharge(at(s3), caller, p, 0, 7, 1).env.store
        s5 == schedule_followup_appointments(at(s4), caller, p, <<appt>>).env.store
        s6 == provide_discharge_education(at(s5), caller, p, 0, 7, TRUE).env.store
        s7 == coordinate_with_snf(at(s6), caller, p, 7, TRUE, 1, 7).env.store
    IN  track_readmission_risk(at(s7), caller, p, 0, 30).env.store

AnnotatedStores ==
    LET caller == [addr |-> 1, authorized |-> TRUE]
        at(s) == [store |-> s, unextended |-> {}, events |-> <<>>,
                  timestamp |-> 0]
        one == Annotated(initiate_discharge_planning(at(EmptyStore), caller,
                             7, 1, 2, 0).env.store, 0)
        two == Annotated(Annotated(TwoPlansStore, 0), 1)
    IN  { one, two, complete_discharge(at(two), caller, 1, 2, 7).env.store }

InitAnnotated ==
    /\ store \in AnnotatedStores
    /\ now = 0
    /\ call = [op |-> "none", args |-> <<>>]
    /\ result = Ok(Unit)
    /\ snapshot = store
    /\ frame = [store |-> store, unextended |-> {}, events |-> <<>>,
                timestamp |-> now]
    /\ returned_plan_ids = [i \in 1..store[KeyCounter] |-> i - 1]
    /\ returned_appointment_ids =
          [i \in 1..(IF KeyAppointmentCounter \in DOMAIN store
                     THEN store[KeyAppointmentCounter] ELSE 0) |-> i - 1]
    /\ completions = [p \in PlanIds |->
                        IF KeyCompleted(p) \in DOMAIN store THEN 1 ELSE 0]
    /\ nops = 0

NextOnce ==
    \/ call.op = "none" /\ Tick
    \/ call.op = "none" /\ InitiateDischargePlanning
    \/ call.op = "none" /\ AssessDischargeReadiness
    \/ call.op = "none" /\ CreateDischargeOrders
    \/ call.op = "none" /\ ArrangeHomeHealth
    \/ call.op = "none" /\ OrderDmeForDischarge
    \/ call.op = "none" /\ ScheduleFollowupAppointments
    \/ call.op = "none" /\ ProvideDischargeEducation
    \/ call.op = "none" /\ CoordinateWithSnf
    \/ call.op = "none" /\ CompleteDischarge
    \/ call.op = "none" /\ TrackReadmissionRisk

SpecAnnotated == InitAnnotated /\ [][NextOnce]_vars

(***************************************************************************)
(* Properties.                                                             *)
(***************************************************************************)
\* the last invocation passed the host's authorization check
Authorized == call.op # "none" /\ call.args.caller.authorized
\* plan p existed when the last invocation started
PlanExisted(p) == KeyPlan(p) \in DOMAIN snapshot
\* key is absent from both stores, or present with the same value in both
SameAt(st1, st2, key) ==
    /\ key \in DOMAIN st1 <=> key \in DOMAIN st2
    /\ key \in DOMAIN st1 => st1[key] = st2[key]
ListAt(st, key) == IF key \in DOMAIN st THEN st[key] ELSE <<>>
CounterAt(st, key) == IF key \in DOMAIN st THEN st[key] ELSE 0
Failed(e) == ~result.ok /\ result.err = e

\* C1: a schedule_followup_appointments call (authorized caller, existing
\* plan, non-empty batch) in which some appointment has scheduled_time <= the
\* ledger timestamp returns InvalidDate, and afterwards every plan's persisted
\* appointment list is what it was before the call.
C1_BatchAtomicity ==
    ( /\ call.op = "schedule_followup_appointments"
      /\ Authorized
      /\ PlanExisted(call.args.discharge_plan_id)
      /\ call.args.appointments # <<>>
      /\ \E i \in 1..Len(call.args.appointments) :
           call.args.appointments[i].scheduled_time <= frame.timestamp )
    => /\ Failed("InvalidDate")
       /\ \A p \in PlanIds :
            SameAt(store, snapshot, KeyAppointments(p))

\* C1 witness: the plan already had appointments; the batch's first
\* appointment validated and was appended by the frame, the second one was
\* rejected, and the persisted list is the one from before the call.
C1_Witness ==
    /\ call.op = "schedule_followup_appointments"
    /\ Failed("InvalidDate")
    /\ Len(call.args.appointments) = 2
    /\ call.args.appointments[1].scheduled_time > frame.timestamp
    /\ LET key == KeyAppointments(call.args.discharge_plan_id)
       IN  /\ ListAt(snapshot, key) # <<>>
           /\ Len(ListAt(frame.store, key)) = Len(ListAt(snapshot, key)) + 1
           /\ ListAt(store, key) = ListAt(snapshot, key)

\* C2: the plan ids returned by the successful initiate_discharge_planning
\* calls are, in call order, 0, 1, 2, ...
C2_PlanIdsSequential ==
    \A i \in 1..Len(returned_plan_ids) : returned_plan_ids[i] = i - 1

\* C2 witness: a second plan id has just been returned, after three
\* invocations of which one was not a successful plan creation.
C2_Witness ==
    /\ call.op = "initiate_discharge_planning"
    /\ result.ok
    /\ Len(returned_plan_ids) = 2
    /\ nops = 3

\* C3: the appointment ids returned by successful
\* schedule_followup_appointments calls, on whatever plans, are strictly
\* increasing in assignment order (hence pairwise distinct).
C3_AppointmentIdsIncreasing ==
    \A i, j \in 1..Len(returned_appointment_ids) :
      i < j => returned_appointment_ids[i] < returned_appointment_ids[j]

\* C3 witness: the third invocation is a successful call on one plan; the
\* other plan got its appointments from an earlier successful call, and the
\* invocation in between was not a successful call.
C3_Witness ==
    /\ call.op = "schedule_followup_appointments"
    /\ result.ok
    /\ nops = 3
    /\ Len(returned_appointment_ids) = Len(result.val) + 1
    /\ \E q \in PlanIds :
         /\ q # call.args.discharge_plan_id
         /\ Len(ListAt(snapshot, KeyAppointments(q))) = 1
    /\ ListAt(snapshot, KeyAppointments(call.args.discharge_plan_id)) = <<>>

\* the number of successful complete_discharge calls on plan p before the
\* last invocation
PriorCompletions(p) ==
    IF /\ call.op = "complete_discharge"
       /\ call.args.discharge_plan_id = p
       /\ result.ok
    THEN completions[p] - 1
    ELSE completions[p]

\* C4: a complete_discharge call (authorized caller) on an existing plan
\* succeeds when no earlier complete_discharge call on that plan succeeded,
\* and returns AlreadyCompleted when one did, whatever its arguments and
\* whatever was invoked in between.
C4_LifecycleMonotonicity ==
    ( /\ call.op = "complete_discharge"
      /\ Authorized
      /\ PlanExisted(call.args.discharge_plan_id) )
    => IF PriorCompletions(call.args.discharge_plan_id) = 0
       THEN result.ok
       ELSE Failed("AlreadyCompleted")

\* C4 witness: a complete_discharge on a completed plan, passing another
\* date than the first completion, is rejected.
C4_Witness ==
    /\ call.op = "complete_discharge"
    /\ Authorized
    /\ Failed("AlreadyCompleted")
    /\ completions[call.args.discharge_plan_id] = 1
    /\ call.args.actual_discharge_date
         # store[KeyCompleted(call.args.discharge_plan_id)][1]

\* the nine entry points that take a discharge_plan_id
PlanOps ==
    {"assess_discharge_readiness", "create_discharge_orders",
     "arrange_home_health", "order_dme_for_discharge",
     "schedule_followup_appointments", "provide_discharge_education",
     "coordinate_with_snf", "complete_discharge", "track_readmission_risk"}

\* C5: each of the nine entry points other than initiate_discharge_planning,
\* called (by an authorized caller) with a plan_id for which no plan exists,
\* returns PlanNotFound, whatever the other arguments.
C5_ExistenceGating ==
    ( /\ call.op \in PlanOps
      /\ Authorized
      /\ ~PlanExisted(call.args.discharge_plan_id) )
    => Failed("PlanNotFound")

\* C5 witness: another plan exists, and assess_discharge_readiness is called
\* on a missing plan with a sub-score above 100.
C5_Witness ==
    /\ call.op = "assess_discharge_readiness"
    /\ Authorized
    /\ call.args.scores[1] > 100
    /\ ~PlanExisted(call.args.discharge_plan_id)
    /\ PlanExisted(0)
    /\ Failed("PlanNotFound")

\* the keys of st that hold a dependent record
DependentKeys(st) == {key \in DOMAIN st : key[1] \in DependentKinds}

\* C6: whenever a dependent record exists under a plan_id, the plan record
\* of that plan_id exists: in persistent storage between invocations, and in
\* the storage an invocation leaves at its point of return.
C6_ReferentialInvariant ==
    /\ \A key \in DependentKeys(store) : KeyPlan(key[2]) \in DOMAIN store
    /\ \A key \in DependentKeys(frame.store) :
         KeyPlan(key[2]) \in DOMAIN frame.store

\* C6 witness: dependent records of two kinds exist under one plan.
C6_Witness ==
    \E p \in PlanIds :
      Cardinality({key \in DependentKeys(store) : key[2] = p}) = 2

\* the plan's is_completed flag in a store (FALSE when the plan is absent)
FlagAt(st, p) == KeyPlan(p) \in DOMAIN st /\ st[KeyPlan(p)].is_completed

\* C7 (authorized caller): in every step and for every plan, a stored
\* Completed(plan_id) value stays stored with the same value and a set
\* is_completed flag stays set; the flag is set exactly when the Completed
\* value is stored; and the flag goes from unset to set only in a successful
\* complete_discharge on that plan, which stores the actual discharge date and
\* the summary hash it was given.  Hence the value and the flag are, in every
\* later state, what the first successful call wrote.
C7_CompletionWriteOnce ==
    [][\A p \in PlanIds :
         /\ KeyCompleted(p) \in DOMAIN store
              => /\ KeyCompleted(p) \in DOMAIN store'
                 /\ store'[KeyCompleted(p)] = store[KeyCompleted(p)]
         /\ FlagAt(store, p) => FlagAt(store', p)
         /\ FlagAt(store', p) <=> KeyCompleted(p) \in DOMAIN store'
         /\ (FlagAt(store', p) /\ ~FlagAt(store, p))
              => /\ call'.op = "complete_discharge"
                 /\ result'.ok
                 /\ call'.args.discharge_plan_id = p
                 /\ store'[KeyCompleted(p)] =
                      <<call'.args.actual_discharge_date,
                        call'.args.discharge_summary_hash>>]_vars

\* C7 witness: an operation other than complete_discharge has succeeded on a
\* plan that was already completed, and the plan's Completed value and flag
\* are those from before the call.
C7_Witness ==
    /\ call.op \in PlanOps \ {"complete_discharge"}
    /\ result.ok
    /\ LET p == call.args.discharge_plan_id
       IN  /\ FlagAt(snapshot, p)
           /\ FlagAt(store, p)
           /\ store[KeyCompleted(p)] = snapshot[KeyCompleted(p)]
           /\ store # snapshot

\* lifecycle state of a plan id in a store
PlanState(st, p) ==
    IF KeyPlan(p) \notin DOMAIN st THEN "absent"
    ELSE IF st[KeyPlan(p)].is_completed THEN "Completed" ELSE "Initiated"

\* C8: in every step and for every plan id, the lifecycle state either stays
\* what it was, or goes from absent to Initiated in a successful
\* initiate_discharge_planning that returns that id, or goes from Initiated
\* to Completed in a successful complete_discharge on that id.
C8_LifecycleForwardOnly ==
    [][\A p \in PlanIds :
         \/ PlanState(store', p) = PlanState(store, p)
         \/ /\ PlanState(store, p) = "absent"
            /\ PlanState(store', p) = "Initiated"
            /\ call'.op = "initiate_discharge_planning"
            /\ result'.ok
            /\ result'.val = p
         \/ /\ PlanState(store, p) = "Initiated"
            /\ PlanState(store', p) = "Completed"
            /\ call'.op = "complete_discharge"
            /\ result'.ok
            /\ call'.args.discharge_plan_id = p]_vars

\* C8 witness: a plan has just gone from Initiated to Completed while another
\* plan, created after it, is still Initiated.
C8_Witness ==
    /\ call.op = "complete_discharge"
    /\ result.ok
    /\ PlanState(snapshot, call.args.discharge_plan_id) = "Initiated"
    /\ PlanState(store, call.args.discharge_plan_id) = "Completed"
    /\ \E q \in PlanIds :
         /\ q > call.args.discharge_plan_id
         /\ PlanState(store, q) = "Initiated"

C10_ReadinessFormula ==
    ( /\ call.op = "assess_discharge_readiness"
      /\ Authorized
      /\ PlanExisted(call.args.discharge_plan_id)
      /\ \A i \in 1..4 : call.args.scores[i] \in 0..100 )
    => /\ result.ok
       /\ LET s == call.args.scores
              p == call.args.discharge_plan_id
              v == result.val
              sum == s[1] + s[2] + s[3] + s[4]
          IN  /\ 4 * v.total_score <= sum
              /\ sum < 4 * v.total_score + 4
              /\ v.is_ready <=> v.total_score >= 75
              /\ v.medical_stability_score = s[1]
              /\ v.functional_status_score = s[2]
              /\ v.support_system_score = s[3]
              /\ v.education_completion_score = s[4]
              /\ v.discharge_plan_id = p
              /\ KeyReadiness(p) \in DOMAIN store
              /\ store[KeyReadiness(p)] = v
              /\ s = <<80, 75, 85, 70>>
                   => v.total_score = 77 /\ v.is_ready
              /\ s = <<60, 50, 70, 65>>
                   => v.total_score = 61 /\ ~v.is_ready

\* C10 witness: sub-scores (76,76,76,75), whose sum 303 is not a multiple of
\* 4, gave the total 75 and is_ready true, replacing an earlier assessment
\* of the same plan.
C10_Witness ==
    /\ call.op = "assess_discharge_readiness"
    /\ result.ok
    /\ call.args.scores = <<76, 76, 76, 75>>
    /\ result.val.total_score = 75
    /\ result.val.is_ready
    /\ KeyReadiness(call.args.discharge_plan_id) \in DOMAIN snapshot
    /\ store[KeyReadiness(call.args.discharge_plan_id)] = result.val

\* C11 (authorized caller): on an existing plan, assess_discharge_readiness
\* with a sub-score above 100 and track_readmission_risk with a risk_score
\* above 100 return InvalidScore, and the plan's Readiness (resp. Risk) record
\* is absent if it was absent and has its previous value if it was present.
C11_ScoreRejection ==
    /\ ( /\ call.op = "assess_discharge_readiness"
         /\ Authorized
         /\ PlanExisted(call.args.discharge_plan_id)
         /\ \E i \in 1..4 : call.args.scores[i] > 100 )
       => /\ Failed("InvalidScore")
          /\ SameAt(store, snapshot, KeyReadiness(call.args.discharge_plan_id))
    /\ ( /\ call.op = "track_readmission_risk"
         /\ Authorized
         /\ PlanExisted(call.args.discharge_plan_id)
         /\ call.args.risk_score > 100 )
       => /\ Failed("InvalidScore")
          /\ SameAt(store, snapshot, KeyRisk(call.args.discharge_plan_id))

\* C11 witness: an assessment whose only out-of-range sub-score is the last
\* one has been rejected, and the plan keeps the assessment it had.
C11_Witness ==
    /\ call.op = "assess_discharge_readiness"
    /\ Failed("InvalidScore")
    /\ call.args.scores = <<100, 100, 100, 101>>
    /\ LET key == KeyReadiness(call.args.discharge_plan_id)
       IN  /\ key \in DOMAIN snapshot
           /\ key \in DOMAIN store
           /\ store[key] = snapshot[key]

\* C12: every stored ReadinessScore has its four sub-scores and total_score
\* in 0..100 and every stored ReadmissionRisk has risk_score in 0..100; and
\* the sub-scores (resp. risk_score) stored by a successful call are the ones
\* it was given, not clamped ones.
C12_ScoreRange ==
    /\ \A p \in PlanIds :
         /\ KeyReadiness(p) \in DOMAIN store
              => LET v == store[KeyReadiness(p)]
                 IN  /\ v.medical_stability_score \in 0..100
                     /\ v.functional_status_score \in 0..100
                     /\ v.support_system_score \in 0..100
                     /\ v.education_completion_score \in 0..100
                     /\ v.total_score \in 0..100
         /\ KeyRisk(p) \in DOMAIN store
              => store[KeyRisk(p)].risk_score \in 0..100
    /\ (call.op = "assess_discharge_readiness" /\ result.ok)
         => LET v == store[KeyReadiness(call.args.discharge_plan_id)]
            IN  <<v.medical_stability_score, v.functional_status_score,
                  v.support_system_score, v.education_completion_score>>
                = call.args.scores
    /\ (call.op = "track_readmission_risk" /\ result.ok)
         => store[KeyRisk(call.args.discharge_plan_id)].risk_score
            = call.args.risk_score

\* C12 witness: a plan has both a stored ReadinessScore and a stored
\* ReadmissionRisk.
C12_Witness ==
    /\ call.op = "track_readmission_risk"
    /\ result.ok
    /\ KeyReadiness(call.args.discharge_plan_id) \in DOMAIN store
    /\ KeyRisk(call.args.discharge_plan_id) \in DOMAIN store

\* C13 (authorized caller): initiate_discharge_planning with
\* expected_discharge_date <= admission_date returns InvalidDate, and no Plan
\* record and the plan counter are what they were; with
\* expected_discharge_date > admission_date it succeeds, returning the
\* counter's previous value as the id of a plan that did not exist, and the
\* stored plan holds the arguments, the ledger time and is_completed = FALSE.
C13_PlanDateRule ==
    ( /\ call.op = "initiate_discharge_planning"
      /\ Authorized )
    => IF call.args.expected_discharge_date <= call.args.admission_date
       THEN /\ Failed("InvalidDate")
            /\ \A p \in PlanIds : SameAt(store, snapshot, KeyPlan(p))
            /\ SameAt(store, snapshot, KeyCounter)
       ELSE /\ result.ok
            /\ result.val = CounterAt(snapshot, KeyCounter)
            /\ CounterAt(store, KeyCounter) = result.val + 1
            /\ KeyPlan(result.val) \notin DOMAIN snapshot
            /\ KeyPlan(result.val) \in DOMAIN store
            /\ store[KeyPlan(result.val)] =
                 [patient_id |-> call.args.patient_id,
                  admission_date |-> call.args.admission_date,
                  expected_discharge_date |->
                      call.args.expected_discharge_date,
                  discharge_destination |-> call.args.discharge_destination,
                  created_at |-> frame.timestamp,
                  is_completed |-> FALSE]

\* C13 witness: with one plan already created, a call with
\* expected_discharge_date = admission_date has been rejected.
C13_Witness ==
    /\ call.op = "initiate_discharge_planning"
    /\ Failed("InvalidDate")
    /\ call.args.expected_discharge_date = call.args.admission_date
    /\ CounterAt(snapshot, KeyCounter) = 1
    /\ CounterAt(store, KeyCounter) = 1

\* C14 (authorized caller): on an existing plan, order_dme_for_discharge with
\* delivery_date <= ledger timestamp and coordinate_with_snf with
\* transfer_date <= ledger timestamp return InvalidDate and leave the plan's
\* DME list (resp. SNF coordination record) as it was; with a later date they
\* succeed, appending the order (resp. storing the coordination).
C14_FutureDateRule ==
    /\ ( /\ call.op = "order_dme_for_discharge"
         /\ Authorized
         /\ PlanExisted(call.args.discharge_plan_id) )
       => LET key == KeyDme(call.args.discharge_plan_id)
          IN  IF call.args.delivery_date <= frame.timestamp
              THEN Failed("InvalidDate") /\ SameAt(store, snapshot, key)
              ELSE /\ result.ok
                   /\ Len(ListAt(store, key)) = Len(ListAt(snapshot, key)) + 1
                   /\ SubSeq(store[key], 1, Len(ListAt(snapshot, key)))
                        = ListAt(snapshot, key)
                   /\ store[key][Len(store[key])].delivery_date
                        = call.args.delivery_date
    /\ ( /\ call.op = "coordinate_with_snf"
         /\ Authorized
         /\ PlanExisted(call.args.discharge_plan_id) )
       => LET key == KeySnfCoord(call.args.discharge_plan_id)
          IN  IF call.args.transfer_date <= frame.timestamp
              THEN Failed("InvalidDate") /\ SameAt(store, snapshot, key)
              ELSE /\ result.ok
                   /\ key \in DOMAIN store
                   /\ store[key].transfer_date = call.args.transfer_date

\* C14 witness: at a ledger time above 0, a coordinate_with_snf call with
\* transfer_date equal to the ledger timestamp has been rejected, and the plan
\* keeps the coordination stored earlier.
C14_Witness ==
    /\ call.op = "coordinate_with_snf"
    /\ Failed("InvalidDate")
    /\ frame.timestamp > 0
    /\ call.args.transfer_date = frame.timestamp
    /\ LET key == KeySnfCoord(call.args.discharge_plan_id)
       IN  /\ key \in DOMAIN snapshot
           /\ key \in DOMAIN store
           /\ store[key] = snapshot[key]

\* C15 (authorized caller): schedule_followup_appointments on an existing
\* plan with an empty appointment list returns InvalidInput; the persisted
\* store, the appointment counter included, is what it was, and the frame
\* itself drew no appointment id.
C15_EmptyBatchRejected ==
    ( /\ call.op = "schedule_followup_appointments"
      /\ Authorized
      /\ PlanExisted(call.args.discharge_plan_id)
      /\ call.args.appointments = <<>> )
    => /\ Failed("InvalidInput")
       /\ store = snapshot
       /\ CounterAt(frame.store, KeyAppointmentCounter)
            = CounterAt(snapshot, KeyAppointmentCounter)

\* C15 witness: an empty batch has been rejected on a plan that already had
\* appointments.
C15_Witness ==
    /\ call.op = "schedule_followup_appointments"
    /\ Failed("InvalidInput")
    /\ call.args.appointments = <<>>
    /\ ListAt(store, KeyAppointments(call.args.discharge_plan_id)) # <<>>
    /\ CounterAt(store, KeyAppointmentCounter) > 0

\* C16 (authorized caller): arrange_home_health on an existing plan with
\* frequency_per_week = 0 or duration_weeks = 0 returns InvalidInput and the
\* plan's stored arrangement is what it was; and every stored
\* HomeHealthArrangement has frequency_per_week > 0 and duration_weeks > 0.
C16_HomeHealthVisits ==
    /\ ( /\ call.op = "arrange_home_health"
         /\ Authorized
         /\ PlanExisted(call.args.discharge_plan_id)
         /\ (call.args.frequency_per_week = 0 \/ call.args.duration_weeks = 0) )
       => /\ Failed("InvalidInput")
          /\ SameAt(store, snapshot, KeyHomeHealth(call.args.discharge_plan_id))
    /\ \A p \in PlanIds :
         KeyHomeHealth(p) \in DOMAIN store
           => /\ store[KeyHomeHealth(p)].frequency_per_week > 0
              /\ store[KeyHomeHealth(p)].duration_weeks > 0

\* C16 witness: a call with duration_weeks = 0 and a positive frequency has
\* been rejected on a plan that keeps the arrangement stored earlier.
C16_Witness ==
    /\ call.op = "arrange_home_health"
    /\ Failed("InvalidInput")
    /\ call.args.frequency_per_week > 0
    /\ call.args.duration_weeks = 0
    /\ LET key == KeyHomeHealth(call.args.discharge_plan_id)
       IN  /\ key \in DOMAIN snapshot
           /\ key \in DOMAIN store
           /\ store[key] = snapshot[key]

\* C17: for every operation, when the host's authorization check rejects the
\* caller, the operation fails with the Unauthorized error kind, whatever the
\* other arguments (missing plan, invalid inputs), and the persisted store is
\* what it was.
C17_UnauthorizedFirst ==
    ( /\ call.op # "none"
      /\ ~call.args.caller.authorized )
    => /\ Failed("Unauthorized")
       /\ store = snapshot

\* C18: a successful schedule_followup_appointments call with a batch of n
\* appointments returns the n ids c, c+1, ..., c+n-1, where c is the persisted
\* appointment counter before the call (0 when none was ever drawn); the i-th
\* event of the call binds the i-th id to the i-th appointment's provider; the
\* counter becomes c+n; and the plan's persisted list is its previous list
\* followed by the batch in batch order.
C18_BatchIds ==
    ( /\ call.op = "schedule_followup_appointments"
      /\ result.ok )
    => LET batch == call.args.appointments
           n == Len(batch)
           p == call.args.discharge_plan_id
           c == CounterAt(snapshot, KeyAppointmentCounter)
       IN  /\ n > 0
           /\ result.val = [i \in 1..n |-> c + i - 1]
           /\ CounterAt(store, KeyAppointmentCounter) = c + n
           /\ ListAt(store, KeyAppointments(p))
                = ListAt(snapshot, KeyAppointments(p)) \o batch
           /\ Len(frame.events) = n
           /\ \A i \in 1..n :
                frame.events[i][2] = <<p, c + i - 1, batch[i].provider_id>>
           /\ (c = 0 /\ n = 2) => result.val = <<0, 1>>

\* C18 witness: with three ids already drawn, a batch of two appointments
\* with different providers has been scheduled on a plan that already had an
\* appointment.
C18_Witness ==
    /\ call.op = "schedule_followup_appointments"
    /\ result.ok
    /\ Len(call.args.appointments) = 2
    /\ call.args.appointments[1].provider_id
         # call.args.appointments[2].provider_id
    /\ result.val = <<3, 4>>
    /\ ListAt(snapshot, KeyAppointments(call.args.discharge_plan_id)) # <<>>

\* the eight annotation operations
AnnotationOps == PlanOps \ {"complete_discharge"}

\* the last invocation's arguments satisfy the input rule listed for its
\* operation (plan existence aside)
OwnInputRuleHolds ==
    CASE call.op = "assess_discharge_readiness" ->
           \A i \in 1..4 : call.args.scores[i] <= 100
      [] call.op = "arrange_home_health" ->
           call.args.frequency_per_week > 0 /\ call.args.duration_weeks > 0
      [] call.op = "order_dme_for_discharge" ->
           call.args.delivery_date > frame.timestamp
      [] call.op = "schedule_followup_appointments" ->
           /\ call.args.appointments # <<>>
           /\ \A i \in 1..Len(call.args.appointments) :
                call.args.appointments[i].scheduled_time > frame.timestamp
      [] call.op = "coordinate_with_snf" ->
           call.args.transfer_date > frame.timestamp
      [] call.op = "track_readmission_risk" ->
           call.args.risk_score <= 100
      [] OTHER -> TRUE

\* C19 (authorized caller): an annotation operation on a plan in state
\* Initiated succeeds whenever its own input rule holds, whatever records the
\* plan already has and whatever was called before.
C19_NoHiddenOrdering ==
    ( /\ call.op \in AnnotationOps
      /\ Authorized
      /\ PlanState(snapshot, call.args.discharge_plan_id) = "Initiated"
      /\ OwnInputRuleHolds )
    => result.ok

\* C19 witness: against the usual workflow order, an operation has succeeded
\* on an Initiated plan that had no readiness assessment but already had a
\* record of a later step (SNF coordination or readmission risk).
C19_Witness ==
    /\ call.op \in {"provide_discharge_education", "create_discharge_orders",
                    "assess_discharge_readiness"}
    /\ result.ok
    /\ LET p == call.args.discharge_plan_id
       IN  /\ PlanState(store, p) = "Initiated"
           /\ KeyReadiness(p) \notin DOMAIN snapshot
           /\ \/ KeyRisk(p) \in DOMAIN snapshot
              \/ KeySnfCoord(p) \in DOMAIN snapshot

\* the entries of all plans' persisted appointment lists, as <<plan, index>>
AppointmentEntries ==
    {e \in PlanIds \X (1..(MaxOps * (MaxBatch + 1))) :
       e[2] <= Len(ListAt(store, KeyAppointments(e[1])))}

\* C20: every entry of every plan's persisted appointment list carries an
\* appointment_id, and the appointment_ids of different entries (of the same
\* plan or of different plans) differ.
C20_AppointmentsCarryIds ==
    /\ \A e \in AppointmentEntries :
         "appointment_id" \in DOMAIN store[KeyAppointments(e[1])][e[2]]
    /\ \A e1, e2 \in AppointmentEntries :
         e1 # e2 => store[KeyAppointments(e1[1])][e1[2]].appointment_id
                    # store[KeyAppointments(e2[1])][e2[2]].appointment_id

\* C21: for every operation and every key it writes, the write is followed
\* within the same invocation by a refresh of that key's retention horizon:
\* when an invocation returns, no key it wrote is left unrefreshed.
C21_UniformExpiryExtension ==
    frame.unextended = {}

\* the events the last invocation left published
LastPublished == Published([env |-> frame, result |-> result])

\* the event kind (second topic) of each operation
EventKind(op) ==
    CASE op = "initiate_discharge_planning" -> "init"
      [] op = "assess_discharge_readiness" -> "ready"
      [] op = "create_discharge_orders" -> "order"
      [] op = "arrange_home_health" -> "homeheal"
      [] op = "order_dme_for_discharge" -> "dme"
      [] op = "schedule_followup_appointments" -> "appt"
      [] op = "provide_discharge_education" -> "edu"
      [] op = "coordinate_with_snf" -> "snf"
      [] op = "complete_discharge" -> "complete"
      [] op = "track_readmission_risk" -> "risk"

\* C22: a successful operation other than schedule_followup_appointments
\* leaves exactly one event published, of its own kind, whose first data field
\* is the plan id it acted on; a successful schedule_followup_appointments
\* leaves one appointment-scheduled event per appointment of the batch, in
\* batch order, the i-th carrying the plan id, the i-th returned id and the
\* i-th appointment's provider; a failed operation leaves no event published.
C22_EventAccounting ==
    call.op # "none" =>
      IF ~result.ok THEN LastPublished = <<>>
      ELSE IF call.op = "schedule_followup_appointments"
      THEN /\ Len(LastPublished) = Len(call.args.appointments)
           /\ \A i \in 1..Len(LastPublished) :
                /\ LastPublished[i][1] = <<"discharge", "appt">>
                /\ LastPublished[i][2] =
                     <<call.args.discharge_plan_id, result.val[i],
                       call.args.appointments[i].provider_id>>
      ELSE /\ Len(LastPublished) = 1
           /\ LastPublished[1][1] = <<"discharge", EventKind(call.op)>>
           /\ LastPublished[1][2][1] =
                IF call.op = "initiate_discharge_planning" THEN result.val
                ELSE call.args.discharge_plan_id

\* C22 witness: after an earlier scheduling call, a batch of two appointments
\* has been scheduled and two events are published.
C22_Witness ==
    /\ call.op = "schedule_followup_appointments"
    /\ result.ok
    /\ Len(LastPublished) = 2
    /\ LastPublished[2][2][2] > 1

\* C23: every stored DischargePlan has expected_discharge_date >
\* admission_date; and a successful complete_discharge, whatever
\* actual_discharge_date it is given, leaves the plan's record as it was but
\* for is_completed.
C23_PlanDatesInvariant ==
    /\ \A p \in PlanIds :
         KeyPlan(p) \in DOMAIN store
           => store[KeyPlan(p)].expected_discharge_date
                > store[KeyPlan(p)].admission_date
    /\ (call.op = "complete_discharge" /\ result.ok)
         => LET key == KeyPlan(call.args.discharge_plan_id)
            IN  store[key] = [snapshot[key] EXCEPT !.is_completed = TRUE]

\* C23 witness: a plan has been completed with an actual_discharge_date that
\* is not after its admission_date.
C23_Witness ==
    /\ call.op = "complete_discharge"
    /\ result.ok
    /\ call.args.actual_discharge_date
         <= store[KeyPlan(call.args.discharge_plan_id)].admission_date

\* C24: inside one invocation no store mutation is applied before all of the
\* invocation's validation checks have passed: an invocation in which a check
\* failed has applied no write, list append or counter increment by the time
\* it returns.
C24_ValidateThenWrite ==
    ~result.ok => frame.store = snapshot

\* the list-valued keys of a plan
ListKeys(p) == {KeyOrders(p), KeyDme(p), KeyAppointments(p), KeyEducation(p)}

\* the number of elements the last invocation, if successful, adds to a list
Added(key) ==
    IF ~result.ok \/ call.op \notin PlanOps THEN 0
    ELSE IF \/ call.op = "create_discharge_orders"
               /\ key = KeyOrders(call.args.discharge_plan_id)
            \/ call.op = "order_dme_for_discharge"
               /\ key = KeyDme(call.args.discharge_plan_id)
            \/ call.op = "provide_discharge_education"
               /\ key = KeyEducation(call.args.discharge_plan_id)
    THEN 1
    ELSE IF /\ call.op = "schedule_followup_appointments"
            /\ key = KeyAppointments(call.args.discharge_plan_id)
    THEN Len(call.args.appointments)
    ELSE 0

\* C25: for every plan, each persisted list (orders, DME orders, appointments,
\* education records) after an invocation starts with the list from before
\* it, element by element, and is longer by exactly one after a successful
\* create_discharge_orders, order_dme_for_discharge or
\* provide_discharge_education on that plan, by the batch (whose elements it
\* ends with) after a successful schedule_followup_appointments, and by
\* nothing otherwise.
C25_AppendOnlyLists ==
    \A p \in PlanIds : \A key \in ListKeys(p) :
      LET old == ListAt(snapshot, key)
          new == ListAt(store, key)
      IN  /\ Len(new) = Len(old) + Added(key)
          /\ SubSeq(new, 1, Len(old)) = old
          /\ (Added(key) > 0 /\ call.op = "schedule_followup_appointments")
               => SubSeq(new, Len(old) + 1, Len(new)) = call.args.appointments

\* C25 witness: an order has been added to a plan's list of orders that was
\* not empty, at a later ledger time than the order before it.
C25_Witness ==
    /\ call.op = "create_discharge_orders"
    /\ result.ok
    /\ LET key == KeyOrders(call.args.discharge_plan_id)
       IN  /\ Len(ListAt(snapshot, key)) = 1
           /\ Len(store[key]) = 2
           /\ store[key][1].created_at < store[key][2].created_at

\* the single-valued record a successful call of the last invocation's kind
\* builds from its arguments and the ledger time
BuiltRecord ==
    LET a == call.args
        sum == a.scores[1] + a.scores[2] + a.scores[3] + a.scores[4]
    IN  CASE call.op = "assess_discharge_readiness" ->
               [discharge_plan_id |-> a.discharge_plan_id,
                medical_stability_score |-> a.scores[1],
                functional_status_score |-> a.scores[2],
                support_system_score |-> a.scores[3],
                education_completion_score |-> a.scores[4],
                total_score |-> sum \div 4,
                is_ready |-> (sum \div 4 >= 75),
                assessed_at |-> frame.timestamp]
          [] call.op = "arrange_home_health" ->
               [agency_id |-> a.agency_id,
                service_type |-> a.service_type,
                frequency_per_week |-> a.frequency_per_week,
                duration_weeks |-> a.duration_weeks,
                arranged_at |-> frame.timestamp]
          [] call.op = "coordinate_with_snf" ->
               [snf_id |-> a.snf_id,
                bed_reserved |-> a.bed_reserved,
                transfer_date |-> a.transfer_date,
                medical_summary_hash |-> a.medical_summary_hash,
                coordinated_at |-> frame.timestamp]
          [] call.op = "track_readmission_risk" ->
               [risk_factors |-> a.risk_factors,
                risk_score |-> a.risk_score,
                tracked_at |-> frame.timestamp]

\* the single-valued key the last invocation's operation writes for plan p
\* (none for the other operations)
SingleKeyOf(p) ==
    CASE call.op = "assess_discharge_readiness" -> {KeyReadiness(p)}
      [] call.op = "arrange_home_health" -> {KeyHomeHealth(p)}
      [] call.op = "coordinate_with_snf" -> {KeySnfCoord(p)}
      [] call.op = "track_readmission_risk" -> {KeyRisk(p)}
      [] OTHER -> {}

\* C26: after every invocation and for every plan, each of the plan's
\* Readiness, HomeHealth, SnfCoord and Risk records is the record built from
\* the arguments and ledger time of that invocation if it was a successful
\* call of the corresponding operation on that plan (whatever was stored
\* before), and is otherwise what it was before the invocation (absent if
\* absent); no such record exists before the first invocation.  Hence each
\* record is always the one of the most recent successful call.
C26_LastWriteWins ==
    /\ call.op = "none" /\ nops = 0 /\ Len(returned_plan_ids) = 0
         => \A p \in PlanIds :
              {KeyReadiness(p), KeyHomeHealth(p), KeySnfCoord(p), KeyRisk(p)}
                \cap DOMAIN store = {}
    /\ \A p \in PlanIds :
         \A key \in {KeyReadiness(p), KeyHomeHealth(p), KeySnfCoord(p),
                     KeyRisk(p)} :
           IF /\ call.op # "none"
              /\ result.ok
              /\ call.op \in PlanOps
              /\ call.args.discharge_plan_id = p
              /\ key \in SingleKeyOf(p)
           THEN key \in DOMAIN store /\ store[key] = BuiltRecord
           ELSE SameAt(store, snapshot, key)

\* C26 witness: a second successful assessment of a plan has replaced the
\* stored ReadinessScore by one with other sub-scores.
C26_Witness ==
    /\ call.op = "assess_discharge_readiness"
    /\ result.ok
    /\ LET key == KeyReadiness(call.args.discharge_plan_id)
       IN  /\ key \in DOMAIN snapshot
           /\ snapshot[key].total_score # store[key].total_score
           /\ store[key].total_score = 61

\* the last invocation, an annotation operation on plan p, has written its
\* record: the record built from its arguments for a single-valued kind, the
\* previous list followed by the new element(s) for a list kind
WroteOwnRecord(p) ==
    /\ \A key \in SingleKeyOf(p) :
         key \in DOMAIN store /\ store[key] = BuiltRecord
    /\ \A key \in ListKeys(p) :
         Added(key) > 0
           => /\ key \in DOMAIN store
              /\ Len(store[key]) = Len(ListAt(snapshot, key)) + Added(key)
              /\ SubSeq(store[key], 1, Len(ListAt(snapshot, key)))
                   = ListAt(snapshot, key)
    /\ SingleKeyOf(p) # {} \/ \E key \in ListKeys(p) : Added(key) > 0

\* C27 (authorized caller): each of the eight annotation operations, called
\* on a Completed plan with arguments that satisfy its own input rule,
\* succeeds and writes its record as it does on an Initiated plan, and the
\* plan stays Completed.
C27_CompletionDoesNotFreeze ==
    ( /\ call.op \in AnnotationOps
      /\ Authorized
      /\ PlanState(snapshot, call.args.discharge_plan_id) = "Completed"
      /\ OwnInputRuleHolds )
    => /\ result.ok
       /\ WroteOwnRecord(call.args.discharge_plan_id)
       /\ PlanState(store, call.args.discharge_plan_id) = "Completed"

\* C27 witness: a readmission risk has been recorded for a plan that was
\* already Completed and had no risk record.
C27_Witness ==
    /\ call.op = "track_readmission_risk"
    /\ result.ok
    /\ PlanState(snapshot, call.args.discharge_plan_id) = "Completed"
    /\ KeyRisk(call.args.discharge_plan_id) \notin DOMAIN snapshot
    /\ KeyRisk(call.args.discharge_plan_id) \in DOMAIN store

\* C28 (authorized caller): complete_discharge succeeds exactly when the plan
\* exists and is not completed, whatever the plan's other records and whatever
\* actual_discharge_date is passed; it returns PlanNotFound when the plan does
\* not exist and AlreadyCompleted when it is completed; and a successful call
\* stores the date it was given.
C28_CompletePrecondition ==
    ( /\ call.op = "complete_discharge"
      /\ Authorized )
    => LET p == call.args.discharge_plan_id
       IN  /\ result.ok <=> PlanState(snapshot, p) = "Initiated"
           /\ PlanState(snapshot, p) = "absent" => Failed("PlanNotFound")
           /\ PlanState(snapshot, p) = "Completed"
                => Failed("AlreadyCompleted")
           /\ result.ok
                => /\ PlanState(store, p) = "Completed"
                   /\ store[KeyCompleted(p)][1]
                        = call.args.actual_discharge_date

\* C28 witness: a plan whose stored ReadinessScore has is_ready = FALSE has
\* been completed with an actual_discharge_date before its admission_date.
C28_Witness ==
    /\ call.op = "complete_discharge"
    /\ result.ok
    /\ LET p == call.args.discharge_plan_id
       IN  /\ KeyReadiness(p) \in DOMAIN snapshot
           /\ ~snapshot[KeyReadiness(p)].is_ready
           /\ call.args.actual_discharge_date
                < store[KeyPlan(p)].admission_date

\* the keys a successful call of the last invocation's kind may change
OwnKeys ==
    LET p == call.args.discharge_plan_id
    IN  CASE call.op = "initiate_discharge_planning" ->
               {KeyCounter, KeyPlan(result.val)}
          [] call.op = "assess_discharge_readiness" -> {KeyReadiness(p)}
          [] call.op = "create_discharge_orders" -> {KeyOrders(p)}
          [] call.op = "arrange_home_health" -> {KeyHomeHealth(p)}
          [] call.op = "order_dme_for_discharge" -> {KeyDme(p)}
          [] call.op = "schedule_followup_appointments" ->
               {KeyAppointments(p), KeyAppointmentCounter}
          [] call.op = "provide_discharge_education" -> {KeyEducation(p)}
          [] call.op = "coordinate_with_snf" -> {KeySnfCoord(p)}
          [] call.op = "complete_discharge" -> {KeyPlan(p), KeyCompleted(p)}
          [] call.op = "track_readmission_risk" -> {KeyRisk(p)}

\* C29: after a successful operation every key other than the key(s) of the
\* operation's own entity kind for its plan is absent if it was absent and
\* has its previous value if it was present.
C29_OperationFrame ==
    (call.op # "none" /\ result.ok)
    => \A key \in (DOMAIN store \cup DOMAIN snapshot) \ OwnKeys :
         SameAt(store, snapshot, key)

\* C29 witness: an operation has succeeded on plan 0 and changed the store
\* while plan 0 and plan 1 both had a record of every kind.
C29_Witness ==
    /\ call.op \in PlanOps
    /\ result.ok
    /\ call.args.discharge_plan_id = 0
    /\ store # snapshot
    /\ \A p \in {0, 1} :
         {KeyReadiness(p), KeyOrders(p), KeyHomeHealth(p), KeyDme(p),
          KeyAppointments(p), KeyEducation(p), KeySnfCoord(p), KeyRisk(p)}
           \subseteq DOMAIN snapshot

\* the plan ids that have a Plan record in a store
PlanIdsIn(st) == {key[2] : key \in {k \in DOMAIN st : k[1] = "Plan"}}

\* C30: the plan ids with a Plan record are exactly 0 .. Counter-1, where
\* Counter is the persisted plan counter (0 when absent); they are exactly the
\* ids returned by the successful initiate_discharge_planning calls so far;
\* and a successful initiate_discharge_planning leaves every Plan record that
\* existed as it was.
C30_PlanCounterInvariant ==
    /\ PlanIdsIn(store) = 0..(CounterAt(store, KeyCounter) - 1)
    /\ PlanIdsIn(store) =
         {returned_plan_ids[i] : i \in 1..Len(returned_plan_ids)}
    /\ (call.op = "initiate_discharge_planning" /\ result.ok)
         => /\ result.val \notin PlanIdsIn(snapshot)
            /\ \A p \in PlanIdsIn(snapshot) : SameAt(store, snapshot, KeyPlan(p))

\* C30 witness: a second plan has been created while plan 0 was completed,
\* and plan 0 is still completed.
C30_Witness ==
    /\ call.op = "initiate_discharge_planning"
    /\ result.ok
    /\ result.val = 1
    /\ PlanState(snapshot, 0) = "Completed"
    /\ PlanState(store, 0) = "Completed"
    /\ CounterAt(store, KeyCounter) = 2

\* the total length of the lists stored under the keys ks of store st
RECURSIVE TotalLen(_, _)
TotalLen(st, ks) ==
    IF ks = {} THEN 0
    ELSE LET k == CHOOSE x \in ks : TRUE
         IN  Len(st[k]) + TotalLen(st, ks \ {k})

\* the number of follow-up appointments persisted over all plans
TotalAppointments(st) ==
    TotalLen(st, {k \in DOMAIN st : k[1] = "Appointments"})

\* C31: between invocations the persisted appointment counter (0 when absent)
\* equals the number of follow-up appointments persisted over all plans; an
\* initiate_discharge_planning call leaves the appointment counter as it was
\* and a schedule_followup_appointments call leaves the plan counter as it
\* was.
C31_AppointmentCounterInvariant ==
    /\ CounterAt(store, KeyAppointmentCounter) = TotalAppointments(store)
    /\ call.op = "initiate_discharge_planning"
         => SameAt(store, snapshot, KeyAppointmentCounter)
    /\ call.op = "schedule_followup_appointments"
         => SameAt(store, snapshot, KeyCounter)

\* C31 witness: a batch of two appointments has been scheduled on plan 0
\* while plans 0 and 1 each had one appointment; the counter is 4.
C31_Witness ==
    /\ call.op = "schedule_followup_appointments"
    /\ result.ok
    /\ call.args.discharge_plan_id = 0
    /\ Len(ListAt(store, KeyAppointments(0))) = 3
    /\ Len(ListAt(store, KeyAppointments(1))) = 1
    /\ store[KeyAppointmentCounter] = 4

\* the fields of a DischargePlan other than is_completed
Descriptor(plan) ==
    <<plan.patient_id, plan.admission_date, plan.expected_discharge_date,
      plan.discharge_destination, plan.created_at>>

\* C32: every plan that existed before an invocation exists after it with the
\* same patient_id, admission_date, expected_discharge_date,
\* discharge_destination and created_at (hence these never change once the
\* plan is created); and after a successful complete_discharge the plan's
\* record has exactly the DischargePlan fields, is_completed being TRUE.
C32_PlanDescriptorImmutable ==
    /\ \A p \in PlanIdsIn(snapshot) :
         /\ p \in PlanIdsIn(store)
         /\ Descriptor(store[KeyPlan(p)]) = Descriptor(snapshot[KeyPlan(p)])
    /\ (call.op = "complete_discharge" /\ result.ok)
         => LET plan == store[KeyPlan(call.args.discharge_plan_id)]
            IN  /\ DOMAIN plan = {"patient_id", "admission_date",
                                  "expected_discharge_date",
                                  "discharge_destination", "created_at",
                                  "is_completed"}
                /\ plan.is_completed

\* C32 witness: a plan has been completed at a later ledger time than it was
\* created at, and still carries its creation time.
C32_Witness ==
    /\ call.op = "complete_discharge"
    /\ result.ok
    /\ LET key == KeyPlan(call.args.discharge_plan_id)
       IN  /\ store[key].created_at < frame.timestamp
           /\ store[key].created_at = snapshot[key].created_at
           /\ ~snapshot[key].is_completed

====
